---- MODULE Spec2Model ----
(***************************************************************************)
(* Model of backup.py: an incremental, generation-based file backup.      *)
(*                                                                         *)
(* Strings of the program are sequences of one-character strings, so that  *)
(* str.replace, str.lstrip, os.path.join and the kernel's path resolution  *)
(* are computed character by character.  The file system is one function   *)
(* from resolved paths (sequences of entry names) to nodes.                *)
(*                                                                         *)
(* A run is one execution of the __main__ block.  The environment (source  *)
(* edits, removals, the calendar) acts between runs; the outcome of disk   *)
(* reads and writes and the free space reported by the device are inputs   *)
(* of the steps that perform them.  Devices of type 'not_supported' are    *)
(* skipped by the device loop without touching the file system and are not *)
(* part of the modelled device list; the links and notifications preamble  *)
(* runs before 'Backup started' and is not modelled.                       *)
(***************************************************************************)
EXTENDS Integers, Sequences, FiniteSets, TLC

sep == "/"

\* ---------------------------------------------------------------- bounds
\* number of calendar days the clock may show
MaxDay == 3
\* the date stamp of the first day (two digits stand for %Y%m%d)
FirstDay == 9
\* free space values the device may report, in half GiB
MaxFree == 3
\* number of disk faults the environment injects
MaxFaults == 1
\* the longest path string given to the path mapping
MaxPathLen == 4

\* units of disk_usage.free per GiB (the code divides the byte count by
\* 1024 three times; the model counts free space in half GiB)
UnitsPerGiB == 2

\* ---------------------------------------------------------------- strings
DigitChars == <<"0", "1", "2", "3", "4", "5", "6", "7", "8", "9">>

IsDigitChar(c) == \E i \in 1..Len(DigitChars) : DigitChars[i] = c

\* code point order, needed only between digit characters
Ord(c) == CHOOSE i \in 1..Len(DigitChars) : DigitChars[i] = c

\* variant: the filter on digit names left out
isdigit_any(s) == Len(s) > 0

\* str.isdigit(): non-empty and every character a decimal digit
isdigit(s) == Len(s) > 0 /\ \A i \in 1..Len(s) : IsDigitChar(s[i])

\* str.replace(old, new) for one-character old and new
replace(s, old, new) == [i \in 1..Len(s) |-> IF s[i] = old THEN new ELSE s[i]]

RECURSIVE lstrip(_, _)
\* str.lstrip(c): drop the leading run of the character c
lstrip(s, c) == IF s # <<>> /\ Head(s) = c THEN lstrip(Tail(s), c) ELSE s

RECURSIVE rstrip(_, _)
rstrip(s, c) ==
    IF s # <<>> /\ s[Len(s)] = c THEN rstrip(SubSeq(s, 1, Len(s) - 1), c) ELSE s

\* index of the last occurrence of c in s, 0 when there is none
rfind(s, c) ==
    IF \E i \in 1..Len(s) : s[i] = c
    THEN CHOOSE i \in 1..Len(s) : s[i] = c /\ \A j \in (i + 1)..Len(s) : s[j] # c
    ELSE 0

\* d.split(sep)[-1]: what follows the last separator
LastSegment(s) == SubSeq(s, rfind(s, sep) + 1, Len(s))

\* posixpath.join(a, b)
join(a, b) ==
    IF b # <<>> /\ Head(b) = sep THEN b
    ELSE IF a = <<>> \/ a[Len(a)] = sep THEN a \o b
    ELSE a \o <<sep>> \o b

\* posixpath.dirname(p)
dirname(p) ==
    LET head == SubSeq(p, 1, rfind(p, sep))
    IN  IF head # <<>> /\ \E i \in 1..Len(head) : head[i] # sep
        THEN rstrip(head, sep) ELSE head

\* posixpath.basename(p)
basename(p) == LastSegment(p)

RECURSIVE StrLess(_, _)
\* Python's < on str, for strings of digit characters
StrLess(a, b) ==
    IF b = <<>> THEN FALSE
    ELSE IF a = <<>> THEN TRUE
    ELSE IF Head(a) # Head(b) THEN Ord(Head(a)) < Ord(Head(b))
    ELSE StrLess(Tail(a), Tail(b))

RECURSIVE SortedForward(_)
\* variant: the reverse=True argument left out
SortedForward(names) ==
    IF names = {} THEN <<>>
    ELSE LET m == CHOOSE x \in names : \A y \in names : ~StrLess(y, x)
         IN  <<m>> \o SortedForward(names \ {m})

RECURSIVE SortedReverse(_)
\* sorted(names, reverse=True): descending by string comparison
SortedReverse(names) ==
    IF names = {} THEN <<>>
    ELSE LET m == CHOOSE x \in names : \A y \in names : ~StrLess(x, y)
         IN  <<m>> \o SortedReverse(names \ {m})

RECURSIVE fnmatch(_, _)
\* fnmatch.fnmatch(name, pat) for patterns made of literals, '*' and '?'
fnmatch(name, pat) ==
    IF pat = <<>> THEN name = <<>>
    ELSE IF Head(pat) = "*"
         THEN fnmatch(name, Tail(pat)) \/ (name # <<>> /\ fnmatch(Tail(name), pat))
    ELSE name # <<>> /\ (Head(pat) = "?" \/ Head(pat) = Head(name))
         /\ fnmatch(Tail(name), Tail(pat))

\* datetime.now().strftime('%Y%m%d'): a fixed-width string of digits
strftime(day) == <<DigitChars[((day \div 10) % 10) + 1], DigitChars[(day % 10) + 1]>>

\* ---------------------------------------------------------------- file system
RECURSIVE SplitFrom(_, _, _)
SplitFrom(p, cur, acc) ==
    IF p = <<>> THEN (IF cur = <<>> THEN acc ELSE Append(acc, cur))
    ELSE IF Head(p) = sep
         THEN SplitFrom(Tail(p), <<>>, IF cur = <<>> THEN acc ELSE Append(acc, cur))
    ELSE SplitFrom(Tail(p), Append(cur, Head(p)), acc)

\* path resolution: the entry names of a path string, empty names dropped
Components(p) == SplitFrom(p, <<>>, <<>>)

DirNode == [type |-> "dir"]
FileNode(content, mtime) == [type |-> "file", content |-> content, mtime |-> mtime]

IsPrefix(a, b) == Len(a) <= Len(b) /\ SubSeq(b, 1, Len(a)) = a

exists(f, p) == Components(p) \in DOMAIN f
isdir(f, p) == exists(f, p) /\ f[Components(p)].type = "dir"
isfile(f, p) == exists(f, p) /\ f[Components(p)].type = "file"

\* os.listdir(p): the names of the entries of directory p
listdir(f, p) ==
    {k[Len(k)] : k \in {x \in DOMAIN f : Len(x) = Len(Components(p)) + 1
                                          /\ IsPrefix(Components(p), x)}}

\* extend or overwrite a function at the keys of g
Overlay(f, g) == [k \in DOMAIN f \cup DOMAIN g |-> IF k \in DOMAIN g THEN g[k] ELSE f[k]]

\* os.makedirs(p, exist_ok=True): create p and its missing ancestors
makedirs(f, p) ==
    LET c == Components(p)
        missing == {SubSeq(c, 1, n) : n \in 0..Len(c)} \ DOMAIN f
    IN  Overlay(f, [k \in missing |-> DirNode])

\* the file written by shutil.copy2: content and modification time of src
WriteFile(f, p, node) == Overlay(f, [k \in {Components(p)} |-> node])

\* removal of a path and everything beneath it
RemoveTree(f, p) ==
    [k \in {x \in DOMAIN f : ~IsPrefix(Components(p), x)} |-> f[k]]

\* ---------------------------------------------------------------- inputs
\* file versions the environment may write: content (bytes) and mtime
V1 == FileNode(<<1>>, 1)
\* same size and mtime as V1, another byte
V2 == FileNode(<<2>>, 1)
\* same content as V1, another mtime
V3 == FileNode(<<1>>, 2)
\* another size
V4 == FileNode(<<1, 2>>, 1)

\* the file names of the model
path_m == <<sep, "m">>
path_n == <<sep, "n">>
path_s == <<sep, "s">>
path_s_a == <<sep, "s", sep, "a">>
path_s_bc == <<sep, "s", sep, "b", ":", "c">>
path_f == <<sep, "f">>
path_t == <<sep, "t">>
path_t_k == <<sep, "t", sep, "k">>
path_t_x == <<sep, "t", sep, "x">>
path_t_d1 == <<sep, "t", sep, "d", "1">>
path_t_d1_k == <<sep, "t", sep, "d", "1", sep, "k">>
path_t_e == <<sep, "t", sep, "e">>
path_t_e_k == <<sep, "t", sep, "e", sep, "k">>
path_t_e_x == <<sep, "t", sep, "e", sep, "x">>

Device(name, p, srcs) ==
    [name |-> name, path |-> p, working_folder |-> <<"w">>,
     free_space_threshold_gb |-> 1,
     sources |-> [i \in 1..Len(srcs) |-> [path |-> srcs[i], ignore |-> <<>>]]]

\* one device and one directory source, whose file a is edited between runs
ConfigA == [devices |-> <<Device("usb", path_m, <<path_s>>)>>, ignore |-> <<>>]

\* two devices, each backing up one single-file source that may disappear
ConfigB ==
    [devices |-> <<Device("usb", path_m, <<path_f>>), Device("nas", path_n, <<path_f>>)>>,
     ignore |-> <<>>]

\* one device, a directory source followed by a single-file source, on
\* disks that may fail
ConfigC == [devices |-> <<Device("usb", path_m, <<path_s, path_f>>)>>, ignore |-> <<>>]

\* one device and one directory source with an ignore list of its own
\* ('x') next to the global ignore list ('d*')
ConfigD ==
    [devices |-> <<[Device("usb", path_m, <<path_t>>)
                      EXCEPT !.sources[1].ignore = <<<<"x">>>>]>>,
     ignore |-> <<<<"d", "*">>>>]

\* one device, a single-file source followed by the directory that holds it
ConfigE == [devices |-> <<Device("usb", path_m, <<path_s_a, path_s>>)>>, ignore |-> <<>>]

Configs == {ConfigA, ConfigB, ConfigC, ConfigD, ConfigE}

\* the file system before the first run: the device root of the first
\* device and the sources exist, the root of a second device does not
InitialFs(c) ==
    LET k(p) == Components(p)
        roots == (k(<<sep>>) :> DirNode) @@ (k(path_m) :> DirNode)
        tree == (k(path_s) :> DirNode) @@ (k(path_s_a) :> V1) @@ (k(path_s_bc) :> V1)
        ttree == (k(path_t) :> DirNode) @@ (k(path_t_k) :> V1) @@ (k(path_t_x) :> V1)
                 @@ (k(path_t_d1) :> DirNode) @@ (k(path_t_d1_k) :> V1)
                 @@ (k(path_t_e) :> DirNode) @@ (k(path_t_e_k) :> V1)
                 @@ (k(path_t_e_x) :> V1)
    IN  IF c \in {ConfigA, ConfigE} THEN roots @@ tree
        ELSE IF c = ConfigB THEN roots @@ (k(path_f) :> V1)
        ELSE IF c = ConfigD THEN roots @@ ttree
        ELSE roots @@ tree @@ (k(path_f) :> V1)

\* what the environment may write between runs: path and version
Writable(c) ==
    IF c = ConfigA THEN {<<path_s_a, v>> : v \in {V1, V2, V3, V4}}
    ELSE IF c = ConfigB THEN {<<path_f, V1>>}
    ELSE IF c = ConfigC THEN {<<path_s_a, v>> : v \in {V1, V3}}
    ELSE {}

\* what the environment may remove between runs
Removable(c) == IF c = ConfigB THEN {path_f} ELSE {}

\* outcome of the disk operations of one do_copy call
IoOutcomes == {"ok", "src_unreadable", "prev_unreadable", "dst_unwritable"}

\* the outcomes the environment may still produce after k faults
IoAfter(c, k) == IF c \in {ConfigB, ConfigC} /\ k < MaxFaults THEN IoOutcomes ELSE {"ok"}

\* the fault count after one more outcome
Faulted(k, io) == IF io = "ok" THEN k ELSE k + 1

\* ---------------------------------------------------------------- state
VARIABLES
    config,          \* the loaded configuration
    fs,              \* the file system: resolved path -> node
    today,           \* the calendar day datetime.now() shows
    pc,              \* position of the run in the __main__ block
    device_num,      \* enumerate(config['devices'], 1)
    working_folder,  \* global working_folder
    target_folder,   \* target_folder of the current device
    prev_backups,    \* global prev_backups
    disk_free,       \* disk_usage.free of the current device
    source_num,      \* position in device['sources'] of the copy phase
    stack,           \* the active shutil.copytree calls, innermost last
    errors,          \* the errors collected by shutil.copytree
    errlog,          \* the records logged with logging.error
    exit_code,       \* the exit status of the process, -1 while it runs
    trace,           \* the do_copy calls made for the current device
    fs0,             \* the file system when the run started
    faults,          \* the disk faults injected so far
    partial,         \* the generation folders left by a run that ended in its copy phase
    map_in,          \* the source paths handed to the path mapping
    map_out          \* the relative paths the path mapping returned

vars == <<config, fs, today, pc, device_num, working_folder, target_folder,
          prev_backups, disk_free, source_num, stack, errors, errlog,
          exit_code, trace, fs0, faults, partial, map_in, map_out>>

mapVars == <<map_in, map_out>>

runVars == <<device_num, working_folder, target_folder, prev_backups,
             disk_free, source_num, stack, errors, errlog, exit_code, trace>>

NoFs == <<>>

Init ==
    /\ config \in Configs
    /\ fs = InitialFs(config)
    /\ today = FirstDay
    /\ pc = "idle"
    /\ device_num = 0
    /\ working_folder = <<>>
    /\ target_folder = <<>>
    /\ prev_backups = <<>>
    /\ disk_free = 0
    /\ source_num = 0
    /\ stack = <<>>
    /\ errors = <<>>
    /\ errlog = <<>>
    /\ exit_code = -1
    /\ trace = <<>>
    /\ fs0 = NoFs
    /\ faults = 0
    /\ partial = {}
    /\ map_in = <<>>
    /\ map_out = <<>>

\* ---------------------------------------------------------------- do_copy
\* the relative path of a source path inside a generation
path_map(src) == lstrip(replace(src, ":", sep), sep)

\* the path do_copy probes in generation backup_name
path_to_find(backup_name, src) ==
    working_folder \o <<sep>> \o backup_name \o <<sep>> \o path_map(src)

RECURSIVE FindPrev(_, _, _)
\* the loop over prev_backups: the first generation holding the path
FindPrev(f, backups, src) ==
    IF backups = <<>> THEN <<>>
    ELSE IF exists(f, path_to_find(Head(backups), src))
         THEN path_to_find(Head(backups), src)
    ELSE FindPrev(f, Tail(backups), src)

prev_version_path(f, src) == FindPrev(f, prev_backups, src)

\* filecmp._sig: type, size and modification time
sig(node) ==
    IF node.type = "file" THEN <<"file", Len(node.content), node.mtime>>
    ELSE <<"dir", 0, 0>>

\* filecmp.cmp(f1, f2) with its default shallow=True:
\* "True", "False", or "OSError" when a file that has to be read cannot be
filecmp_cmp(n1, n2, io) ==
    IF sig(n1)[1] # "file" \/ sig(n2)[1] # "file" THEN "False"
    ELSE IF sig(n1) = sig(n2) THEN "True"
    ELSE IF sig(n1)[2] # sig(n2)[2] THEN "False"
    ELSE IF io \in {"src_unreadable", "prev_unreadable"} THEN "OSError"
    ELSE IF n1.content = n2.content THEN "True" ELSE "False"

\* shutil.copy2(src, dst): whether it succeeds and the file system it leaves
copy2(f, src, dst, io) ==
    LET to == IF isdir(f, dst) THEN join(dst, basename(src)) ELSE dst
    IN  IF io \in {"src_unreadable", "dst_unwritable"}
        THEN [ok |-> FALSE, fs |-> f]
        ELSE [ok |-> TRUE, fs |-> WriteFile(f, to, f[Components(src)])]

\* variant: a file without a prior version counts as unchanged
do_copy_skips_new(f, src, dst, io) ==
    LET prev == prev_version_path(f, src)
        same == IF prev = <<>> THEN "True"
                ELSE filecmp_cmp(f[Components(src)], f[Components(prev)], io)
    IN  IF same = "OSError" THEN [decision |-> "ERROR", fs |-> f]
        ELSE IF same = "True" THEN [decision |-> "SKIP", fs |-> f]
        ELSE IF ~copy2(f, src, dst, io).ok THEN [decision |-> "ERROR", fs |-> f]
        ELSE [decision |-> "COPY", fs |-> copy2(f, src, dst, io).fs]

\* do_copy(src, dst): the decision and the file system it leaves
do_copy(f, src, dst, io) ==
    LET prev == prev_version_path(f, src)
        same == IF prev = <<>> THEN "False"
                ELSE filecmp_cmp(f[Components(src)], f[Components(prev)], io)
    IN  IF same = "OSError" THEN [decision |-> "ERROR", fs |-> f]
        ELSE IF same = "True" THEN [decision |-> "SKIP", fs |-> f]
        ELSE IF ~copy2(f, src, dst, io).ok THEN [decision |-> "ERROR", fs |-> f]
        ELSE [decision |-> "COPY", fs |-> copy2(f, src, dst, io).fs]

\* the record of one do_copy call ('Copy src' / 'Skip src' in the log)
Call(src, dst, io, r) ==
    [src |-> src, dst |-> dst, io |-> io, decision |-> r.decision,
     source |-> source_num]

\* ---------------------------------------------------------------- the run
device == config.devices[device_num]

\* abort(msg): logging.error(msg); quit()
abort(kind) ==
    /\ errlog' = Append(errlog, kind)
    /\ exit_code' = 0
    /\ pc' = "aborted"

\* an exception nothing catches: traceback, exit status 1
Crash ==
    /\ exit_code' = 1
    /\ pc' = "crashed"

\* the process is started
StartRun ==
    /\ pc = "idle"
    /\ pc' = "device"
    /\ device_num' = 1
    /\ fs0' = fs
    /\ UNCHANGED <<config, fs, today, working_folder, target_folder,
                   prev_backups, disk_free, source_num, stack, errors,
                   errlog, exit_code, trace, faults, partial, mapVars>>

\* head of the device loop: working, target and log folder
BeginDevice ==
    /\ pc = "device"
    /\ working_folder' = join(device.path, device.working_folder)
    /\ target_folder' = join(working_folder', strftime(today))
    /\ fs' = makedirs(makedirs(fs, working_folder'),
                      join(working_folder', <<"l", "o", "g", "s">>))
    /\ trace' = <<>>
    /\ pc' = "check_sources"
    /\ UNCHANGED <<config, today, device_num, prev_backups, disk_free,
                   source_num, stack, errors, errlog, exit_code, fs0, faults, partial, mapVars>>

\* variant: the loop tests the device path instead of the source path
missing_source_device_path(f, dev) ==
    \E i \in 1..Len(dev.sources) : ~exists(f, dev.path)

\* the loop of 'Checking sources': some declared source does not exist
missing_source(f, dev) ==
    \E i \in 1..Len(dev.sources) : ~exists(f, dev.sources[i].path)

\* 'Checking sources'
CheckSources ==
    /\ pc = "check_sources"
    /\ IF missing_source(fs, device)
       THEN abort("source")
       ELSE pc' = "prepare" /\ UNCHANGED <<errlog, exit_code>>
    /\ UNCHANGED <<config, fs, today, device_num, working_folder,
                   target_folder, prev_backups, disk_free, source_num, stack,
                   errors, trace, fs0, faults, partial, mapVars>>

\* variant: >= in place of >
free_space_ok_ge(free, threshold_gb) == free >= threshold_gb * UnitsPerGiB

\* disk_usage.free / 1024 / 1024 / 1024 > free_space_threshold_gb
free_space_ok(free, threshold_gb) == free > threshold_gb * UnitsPerGiB

\* 'Preparing target device': device path and free space
PrepareTarget ==
    /\ pc = "prepare"
    /\ IF ~exists(fs, device.path)
       THEN abort("device") /\ UNCHANGED disk_free
       ELSE \E free \in 0..MaxFree :
               /\ disk_free' = free
               /\ IF free_space_ok(free, device.free_space_threshold_gb)
                  THEN pc' = "index" /\ UNCHANGED <<errlog, exit_code>>
                  ELSE abort("free")
    /\ UNCHANGED <<config, fs, today, device_num, working_folder,
                   target_folder, prev_backups, source_num, stack, errors,
                   trace, fs0, faults, partial, mapVars>>

\* variant: makedirs(p, exist_ok=True) in place of mkdir(p)
mkdir_exist_ok(f, p) == [ok |-> TRUE, fs |-> makedirs(f, p)]

\* os.mkdir(p): fails with FileExistsError when p exists
mkdir(f, p) ==
    IF exists(f, p) THEN [ok |-> FALSE, fs |-> f]
    ELSE [ok |-> TRUE, fs |-> Overlay(f, [k \in {Components(p)} |-> DirNode])]

\* the generation index and mkdir(target_folder)
MakeTarget ==
    /\ pc = "index"
    /\ prev_backups' = SortedReverse({d \in listdir(fs, working_folder) :
                                         isdigit(LastSegment(d))})
    /\ IF ~mkdir(fs, target_folder).ok
       THEN abort("target") /\ UNCHANGED <<fs, source_num>>
       ELSE /\ fs' = mkdir(fs, target_folder).fs
            /\ source_num' = 1
            /\ pc' = "source"
            /\ UNCHANGED <<errlog, exit_code>>
    /\ UNCHANGED <<config, today, device_num, working_folder, target_folder,
                   disk_free, stack, errors, trace, fs0, faults, partial, mapVars>>

\* shutil.ignore_patterns(*patterns) applied to the names of a directory
ignored_names(names, patterns) ==
    {n \in names : \E i \in 1..Len(patterns) : fnmatch(n, patterns[i])}

\* the state of one shutil.copytree call: the entries still to visit
Frame(f, src, dst, patterns) ==
    [src |-> src, dst |-> dst, patterns |-> patterns,
     entries |-> listdir(f, src) \ ignored_names(listdir(f, src), patterns)]

\* variant: the global ignore list left out
ignore_source_only(source, cfg) == source.ignore

\* ignore = [*source.get('ignore', []), *config['ignore']]
ignore(source, cfg) == source.ignore \o cfg.ignore

\* variant: the destination built on the working folder, not the generation
dst_path_in_working_folder(target, source_path) ==
    dirname(target) \o <<sep>> \o path_map(source_path)

\* dst_path = f"{target_folder}{sep}{source['path'].replace(':', sep).lstrip(sep)}"
dst_path(target, source_path) == target \o <<sep>> \o path_map(source_path)

\* 'Copying data': the next source, or the end of the source loop
BeginSource ==
    /\ pc = "source"
    /\ source_num <= Len(device.sources)
    /\ LET source == device.sources[source_num]
           src_path == source.path
           dst == dst_path(target_folder, source.path)
       IN  IF isdir(fs, src_path)
           THEN \* copytree: os.makedirs(dst) without exist_ok
                IF exists(fs, dst)
                THEN /\ Crash
                     /\ partial' = partial \cup {target_folder}
                     /\ UNCHANGED <<fs, stack, trace, source_num, faults>>
                ELSE /\ fs' = makedirs(fs, dst)
                     /\ stack' = <<Frame(fs, src_path, dst, ignore(source, config))>>
                     /\ pc' = "copytree"
                     /\ UNCHANGED <<exit_code, trace, source_num, faults, partial>>
           ELSE \E io \in IoAfter(config, faults) :
                LET r == do_copy(makedirs(fs, dirname(dst)), src_path, dst, io)
                IN  /\ fs' = r.fs
                    /\ faults' = Faulted(faults, io)
                    /\ trace' = Append(trace, Call(src_path, dst, io, r))
                    /\ IF r.decision = "ERROR"
                       THEN /\ Crash
                            /\ partial' = partial \cup {target_folder}
                            /\ UNCHANGED source_num
                       ELSE /\ source_num' = source_num + 1
                            /\ UNCHANGED <<pc, exit_code, partial>>
                    /\ UNCHANGED stack
    /\ UNCHANGED <<config, today, device_num, working_folder, target_folder,
                   prev_backups, disk_free, errors, errlog, fs0, mapVars>>

\* one entry of the innermost copytree loop
CopyEntry ==
    /\ pc = "copytree"
    /\ LET top == stack[Len(stack)]
           rest == SubSeq(stack, 1, Len(stack) - 1)
       IN  \E name \in top.entries :
           LET srcname == join(top.src, name)
               dstname == join(top.dst, name)
               done == [top EXCEPT !.entries = @ \ {name}]
           IN  IF isdir(fs, srcname)
               THEN IF exists(fs, dstname)
                    THEN \* FileExistsError, caught by the calling copytree
                         /\ errors' = Append(errors, srcname)
                         /\ stack' = Append(rest, done)
                         /\ UNCHANGED <<fs, trace, faults>>
                    ELSE /\ fs' = makedirs(fs, dstname)
                         /\ stack' = Append(Append(rest, done),
                                            Frame(fs, srcname, dstname, top.patterns))
                         /\ UNCHANGED <<errors, trace, faults>>
               ELSE \E io \in IoAfter(config, faults) :
                    LET r == do_copy(fs, srcname, dstname, io)
                    IN  /\ fs' = r.fs
                        /\ faults' = Faulted(faults, io)
                        /\ trace' = Append(trace, Call(srcname, dstname, io, r))
                        /\ errors' = IF r.decision = "ERROR"
                                     THEN Append(errors, srcname) ELSE errors
                        /\ stack' = Append(rest, done)
    /\ UNCHANGED <<config, today, pc, device_num, working_folder,
                   target_folder, prev_backups, disk_free, source_num, errlog,
                   exit_code, fs0, partial, mapVars>>

\* variant: the collected errors are dropped
copytree_swallows(errs) == FALSE

\* 'if errors: raise Error(errors)' at the end of copytree
copytree_raises(errs) == errs # <<>>

\* the end of a copytree call: raise Error(errors) when any was collected
ReturnTree ==
    /\ pc = "copytree"
    /\ stack[Len(stack)].entries = {}
    /\ stack' = SubSeq(stack, 1, Len(stack) - 1)
    /\ IF Len(stack) > 1
       THEN UNCHANGED <<pc, source_num, errlog, exit_code, partial>>
       ELSE IF copytree_raises(errors)
            THEN /\ abort("copy")
                 /\ partial' = partial \cup {target_folder}
                 /\ UNCHANGED source_num
       ELSE /\ source_num' = source_num + 1
            /\ pc' = "source"
            /\ UNCHANGED <<errlog, exit_code, partial>>
    /\ UNCHANGED <<config, fs, today, device_num, working_folder,
                   target_folder, prev_backups, disk_free, errors, trace, fs0,
                   faults, mapVars>>

\* 'Postprocessing' and the step to the next device
FinishDevice ==
    /\ pc = "source"
    /\ source_num > Len(device.sources)
    /\ IF device_num < Len(config.devices)
       THEN /\ device_num' = device_num + 1
            /\ pc' = "device"
            /\ UNCHANGED exit_code
       ELSE /\ pc' = "done"
            /\ exit_code' = 0
            /\ UNCHANGED device_num
    /\ UNCHANGED <<config, fs, today, working_folder, target_folder,
                   prev_backups, disk_free, source_num, stack, errors, errlog,
                   trace, fs0, faults, partial, mapVars>>

\* the process has ended; its variables are gone
ProcessExit ==
    /\ pc \in {"done", "aborted", "crashed"}
    /\ pc' = "idle"
    /\ device_num' = 0
    /\ working_folder' = <<>>
    /\ target_folder' = <<>>
    /\ prev_backups' = <<>>
    /\ disk_free' = 0
    /\ source_num' = 0
    /\ stack' = <<>>
    /\ errors' = <<>>
    /\ errlog' = <<>>
    /\ exit_code' = -1
    /\ trace' = <<>>
    /\ fs0' = NoFs
    /\ UNCHANGED <<config, fs, today, faults, partial, mapVars>>

\* ---------------------------------------------------------------- environment
\* midnight passes
NextDay ==
    /\ pc = "idle"
    /\ today < FirstDay + MaxDay - 1
    /\ today' = today + 1
    /\ UNCHANGED <<config, fs, pc, runVars, fs0, faults, partial, mapVars>>

\* a source file is written
EnvWrite ==
    /\ pc = "idle"
    /\ \E w \in Writable(config) :
          /\ fs' = WriteFile(makedirs(fs, dirname(w[1])), w[1], w[2])
          /\ fs' # fs
    /\ UNCHANGED <<config, today, pc, runVars, fs0, faults, partial, mapVars>>

\* a source disappears
EnvRemove ==
    /\ pc = "idle"
    /\ \E p \in Removable(config) :
          /\ exists(fs, p)
          /\ fs' = RemoveTree(fs, p)
    /\ UNCHANGED <<config, today, pc, runVars, fs0, faults, partial, mapVars>>

Next ==
    \/ StartRun
    \/ BeginDevice
    \/ CheckSources
    \/ PrepareTarget
    \/ MakeTarget
    \/ BeginSource
    \/ CopyEntry
    \/ ReturnTree
    \/ FinishDevice
    \/ ProcessExit
    \/ NextDay
    \/ EnvWrite
    \/ EnvRemove

Spec == Init /\ [][Next]_vars

\* ---------------------------------------------------------------- the path mapping alone
\* the characters of the source paths handed to the mapping
PathChars == {sep, ":", "a", "b"}

\* the absolute paths of at most MaxPathLen characters
AbsPaths ==
    {<<sep>> \o t : t \in UNION {[1..n -> PathChars] : n \in 0..(MaxPathLen - 1)}}

\* two source paths, nothing mapped yet, no run in progress
InitMap ==
    /\ config = ConfigA
    /\ fs = InitialFs(config)
    /\ today = FirstDay
    /\ pc = "idle"
    /\ device_num = 0
    /\ working_folder = <<>>
    /\ target_folder = <<>>
    /\ prev_backups = <<>>
    /\ disk_free = 0
    /\ source_num = 0
    /\ stack = <<>>
    /\ errors = <<>>
    /\ errlog = <<>>
    /\ exit_code = -1
    /\ trace = <<>>
    /\ fs0 = NoFs
    /\ faults = 0
    /\ partial = {}
    /\ map_in \in AbsPaths \X AbsPaths
    /\ map_out = <<>>

\* src.replace(':', sep).lstrip(sep) applied to both paths
ApplyMap ==
    /\ map_out = <<>>
    /\ map_out' = <<path_map(map_in[1]), path_map(map_in[2])>>
    /\ UNCHANGED <<config, fs, today, pc, runVars, fs0, faults, partial, map_in>>

NextMap == ApplyMap

SpecMap == InitMap /\ [][NextMap]_vars

\* ---------------------------------------------------------------- properties
RECURSIVE NumVal(_)
\* the number a string of digits denotes
NumVal(s) ==
    IF s = <<>> THEN 0
    ELSE NumVal(SubSeq(s, 1, Len(s) - 1)) * 10 + (Ord(s[Len(s)]) - 1)

\* the part of a file system at and below path p
Sub(f, p) == [k \in {x \in DOMAIN f : IsPrefix(Components(p), x)} |-> f[k]]

\* the generations the device held when the run started
PriorGenerations == {g \in listdir(fs0, working_folder) : isdigit(g)}

\* those of them that hold an entry at the relative path rel
GensHolding(rel) ==
    {g \in PriorGenerations :
        (Components(working_folder) \o <<g>> \o rel) \in DOMAIN fs0}

\* the most recent generation of a set, by the number its name denotes
Newest(G) == CHOOSE g \in G : \A h \in G : NumVal(h) <= NumVal(g)

PriorNode(g, rel) == fs0[Components(working_folder) \o <<g>> \o rel]

SourceNode(e) == fs[Components(e.src)]

ByteIdentical(s, p) == s.type = "file" /\ p.type = "file" /\ s.content = p.content

\* the relative path, inside the new generation, a call was asked to write
RelOfDst(e) ==
    SubSeq(Components(e.dst), Len(Components(target_folder)) + 1,
           Len(Components(e.dst)))

TargetUntouched == Sub(fs, target_folder) = Sub(fs0, target_folder)

LaterDevicesUntouched ==
    \A d \in (device_num + 1)..Len(config.devices) :
        Sub(fs, config.devices[d].path) = Sub(fs0, config.devices[d].path)

\* C1: for a source file whose mapped path exists in a prior generation,
\* do_copy decides SKIP exactly when the content is byte-identical to the
\* copy in the most recent such generation and COPY when a byte differs,
\* whatever size and modification time say (no disk fault involved).
UnchangedFileDecision ==
    \A i \in 1..Len(trace) :
        LET e == trace[i]
            rel == Components(path_map(e.src))
            G == GensHolding(rel)
        IN  (e.io = "ok" /\ G # {}) =>
                LET same == ByteIdentical(SourceNode(e), PriorNode(Newest(G), rel))
                IN  (e.decision = "SKIP" <=> same) /\ (~same => e.decision = "COPY")

\* what the comparison makes of a source and one prior copy
CmpVerdict(s, p) ==
    /\ s.type = "file" /\ p.type = "file"
    /\ \/ Len(s.content) = Len(p.content) /\ s.mtime = p.mtime
       \/ s.content = p.content

\* C2: when two or more prior generations hold the mapped path, the
\* decision is the verdict of comparing the source with the copy in the
\* newest of them; no older copy has a say.
MostRecentWins ==
    \A i \in 1..Len(trace) :
        LET e == trace[i]
            rel == Components(path_map(e.src))
            G == GensHolding(rel)
        IN  Cardinality(G) >= 2 =>
                LET verdict == CmpVerdict(SourceNode(e), PriorNode(Newest(G), rel))
                IN  /\ e.decision = "SKIP" => verdict
                    /\ e.decision = "COPY" => ~verdict
                    /\ e.decision = "ERROR" => e.io # "ok"

\* an older generation holds a copy identical to the source, the newest
\* one does not, and the file was copied
MostRecentWinsWitness ==
    \E i \in 1..Len(trace) :
        LET e == trace[i]
            rel == Components(path_map(e.src))
            G == GensHolding(rel)
        IN  /\ Cardinality(G) >= 2
            /\ \E g \in G \ {Newest(G)} : ByteIdentical(SourceNode(e), PriorNode(g, rel))
            /\ ~CmpVerdict(SourceNode(e), PriorNode(Newest(G), rel))
            /\ e.decision = "COPY"

\* C3: once a file was copied into some generation, a later run that finds
\* the source content as the most recent copy left it decides SKIP and
\* writes no file for it into the new generation.
UnchangedSkipsAcrossRuns ==
    \A i \in 1..Len(trace) :
        LET e == trace[i]
            rel == RelOfDst(e)
            G == GensHolding(rel)
        IN  (e.io = "ok" /\ G # {}
             /\ ByteIdentical(SourceNode(e), PriorNode(Newest(G), rel)))
            => (e.decision = "SKIP" /\ Components(e.dst) \notin DOMAIN fs)

\* the free space of the current device has been read
FreeSpaceRead ==
    \/ pc \in {"index", "source", "copytree", "crashed"}
    \/ pc = "aborted" /\ errlog[Len(errlog)] \notin {"source", "device"}

\* C4: when the free space of the device, in GiB, is at or below its
\* threshold, the run is aborted, the device's generation folder was not
\* created and no file of the device was compared or copied.
FreeSpaceGate ==
    (FreeSpaceRead
     /\ disk_free <= device.free_space_threshold_gb * UnitsPerGiB)
    => (pc = "aborted" /\ trace = <<>> /\ TargetUntouched)

\* the run aborted with the free space exactly at the threshold
FreeSpaceGateWitness ==
    /\ pc = "aborted"
    /\ errlog = <<"free">>
    /\ disk_free = device.free_space_threshold_gb * UnitsPerGiB
    /\ ~exists(fs, target_folder)

\* C5: when the generation folder of the current date existed before the
\* run reached the device, the run aborts without a do_copy call for the
\* device and the folder's contents are what they were before the run.
ExistingTargetAborts ==
    (pc \notin {"idle", "device"} /\ exists(fs0, target_folder))
    => /\ pc \in {"check_sources", "prepare", "index", "aborted"}
       /\ trace = <<>>
       /\ TargetUntouched

\* the run aborted on a generation folder that holds a file
ExistingTargetAbortsWitness ==
    /\ pc = "aborted"
    /\ errlog = <<"target">>
    /\ \E k \in DOMAIN Sub(fs0, target_folder) : fs0[k].type = "file"

\* C6: when the root path of a device does not exist as its processing
\* begins, no working folder is created under it (nor, then, a log or
\* generation folder, nor any file).
MissingDeviceAborts ==
    (pc # "idle" /\ ~exists(fs0, device.path))
    => ~exists(fs, join(device.path, device.working_folder))

\* C7: when a declared source of the device does not exist, the run aborts
\* at the source check: the device's generation folder is not created, no
\* file of the device is compared or copied, and the later devices are
\* left as they were.
MissingSourceAborts ==
    (pc \notin {"idle", "device"}
     /\ \E i \in 1..Len(device.sources) : ~exists(fs, device.sources[i].path))
    => /\ pc \in {"check_sources", "aborted"}
       /\ trace = <<>>
       /\ TargetUntouched
       /\ LaterDevicesUntouched

\* the run aborted on a missing source of a device that is not the last
MissingSourceAbortsWitness ==
    /\ pc = "aborted"
    /\ errlog = <<"source">>
    /\ device_num < Len(config.devices)
    /\ ~exists(fs, target_folder)

\* C8: every fatal validation failure is logged as an error and ends the
\* process with a non-zero exit status.
AbortSignal ==
    (pc = "aborted"
     /\ errlog # <<>>
     /\ errlog[Len(errlog)] \in {"source", "device", "free", "target"})
    => exit_code # 0

\* C9: after a do_copy call failed with an I/O error, no further file is
\* compared or copied: the failing call is the last one.
NoCallAfterFailure ==
    \A i \in 1..Len(trace) : trace[i].decision = "ERROR" => i = Len(trace)

\* C9, amended: after a do_copy call failed, the run never reaches a later
\* source or a later device; the calls that follow the failing one belong
\* to the same source, and the run ends when its traversal does.
FailureStopsLaterSources ==
    \A i \in 1..Len(trace) :
        trace[i].decision = "ERROR" =>
            /\ pc \in {"copytree", "aborted", "crashed"}
            /\ trace[i].source = source_num
            /\ \A j \in i..Len(trace) : trace[j].source = source_num
            /\ LaterDevicesUntouched

\* a file of the same source was copied after a call had failed, and the
\* run then aborted
FailureStopsLaterSourcesWitness ==
    /\ pc = "aborted"
    /\ errlog = <<"copy">>
    /\ \E i, j \in 1..Len(trace) :
          i < j /\ trace[i].decision = "ERROR" /\ trace[j].decision = "COPY"

\* C10: when the prior version resolved for a source file cannot be read,
\* do_copy does not decide SKIP.
UnreadablePriorNeverSkips ==
    \A i \in 1..Len(trace) :
        LET e == trace[i]
        IN  (e.io = "prev_unreadable"
             /\ GensHolding(Components(path_map(e.src))) # {})
            => e.decision # "SKIP"

\* the entry names of resolved path k below the directory base
Below(k, base) == SubSeq(k, Len(base) + 1, Len(k))

\* some name of the sequence matches a pattern of the source's own ignore
\* list or of the global one
HitsIgnore(names, source) ==
    \E j \in 1..Len(names) :
        \/ \E q \in 1..Len(source.ignore) : fnmatch(names[j], source.ignore[q])
        \/ \E q \in 1..Len(config.ignore) : fnmatch(names[j], config.ignore[q])

\* the directory of the new generation a source is copied to
SourceBase(source) == Components(target_folder) \o Components(path_map(source.path))

\* C11: an entry of a source whose bare name matches a pattern of the
\* source's ignore list or of the global ignore list never reaches do_copy
\* and never appears in the new generation, nor does anything beneath it.
IgnoredNeverCopied ==
    pc \notin {"idle", "device"} =>
        \A i \in 1..Len(device.sources) :
            LET source == device.sources[i]
                root == Components(source.path)
                base == SourceBase(source)
            IN  /\ \A t \in 1..Len(trace) :
                       trace[t].source = i =>
                           ~HitsIgnore(Below(Components(trace[t].src), root), source)
                /\ \A k \in DOMAIN fs :
                       IsPrefix(base, k) => ~HitsIgnore(Below(k, base), source)

\* a finished run whose source holds a file matching the source's own
\* list, a directory matching the global list with a file beneath it, and
\* files matching neither, which were copied
IgnoredNeverCopiedWitness ==
    /\ pc = "done"
    /\ \E i \in 1..Len(device.sources) :
          LET source == device.sources[i]
              root == Components(source.path)
          IN  /\ \E k \in DOMAIN fs :
                    /\ IsPrefix(root, k) /\ k # root /\ fs[k].type = "file"
                    /\ \E q \in 1..Len(source.ignore) : fnmatch(k[Len(k)], source.ignore[q])
              /\ \E k, k2 \in DOMAIN fs :
                    /\ IsPrefix(root, k) /\ k # root /\ fs[k].type = "dir"
                    /\ \E q \in 1..Len(config.ignore) : fnmatch(k[Len(k)], config.ignore[q])
                    /\ IsPrefix(k, k2) /\ k2 # k /\ fs[k2].type = "file"
              /\ \E t \in 1..Len(trace) :
                    /\ trace[t].source = i /\ trace[t].decision = "COPY"
                    /\ Len(Components(trace[t].src)) > Len(root) + 1

\* C12: two absolute source paths that denote different locations are
\* never mapped to the same relative path inside a generation.
MapInjective ==
    map_out # <<>> =>
        (Components(map_in[1]) # Components(map_in[2])
            => Components(map_out[1]) # Components(map_out[2]))

\* the generation folders of device d in file system f
Generations(f, d) ==
    LET dev == config.devices[d]
    IN  {g \in listdir(f, join(dev.path, dev.working_folder)) : isdigit(g)}

PriorGenerationOf(e) ==
    LET G == GensHolding(Components(path_map(e.src)))
    IN  IF G = {} THEN <<>> ELSE working_folder \o <<sep>> \o Newest(G)

\* C14: a generation folder left incomplete by a run that aborted in its
\* copy phase makes every later run for the device abort in preflight, so
\* do_copy never takes the prior version of a file from such a folder.
IncompleteNeverPrior ==
    /\ \A i \in 1..Len(trace) : PriorGenerationOf(trace[i]) \notin partial
    /\ (pc \in {"source", "copytree", "done"}
            => \A g \in partial : ~IsPrefix(Components(working_folder), Components(g)))

\* C15: a destination directory that already exists in the generation in
\* progress is not an error: a source whose destination directory an
\* earlier source of the device created is still copied, so the copy phase
\* fails only where a do_copy call failed.
ExistingDirectoryNoError ==
    /\ pc = "crashed" =>
           /\ trace # <<>>
           /\ trace[Len(trace)].decision = "ERROR"
    /\ \A i \in 1..Len(errors) :
           \E t \in 1..Len(trace) :
               trace[t].src = errors[i] /\ trace[t].decision = "ERROR"

\* the source loop of the current device has run to its end
CopyPhaseOver == pc = "done" \/ (pc = "source" /\ source_num > Len(device.sources))

\* the files of a source that no ignore pattern excludes
NonIgnoredFiles(source) ==
    {k \in DOMAIN fs :
        /\ IsPrefix(Components(source.path), k)
        /\ fs[k].type = "file"
        /\ ~HitsIgnore(Below(k, Components(source.path)), source)}

\* C16: when the working folder holds no prior generation, the empty
\* generation list is no error, every file handed to do_copy is decided
\* COPY and written, and at the end of the copy phase every non-ignored
\* file of every source is in the new generation (no disk fault involved).
FirstBackupCopiesAll ==
    (pc \notin {"idle", "device"} /\ PriorGenerations = {}) =>
        /\ (pc \in {"source", "copytree"} \/ trace # <<>>) => prev_backups = <<>>
        /\ pc = "aborted" =>
               \/ errlog[Len(errlog)] \in {"source", "device", "free"}
               \/ \E t \in 1..Len(trace) : trace[t].io # "ok"
        /\ \A t \in 1..Len(trace) :
               trace[t].io = "ok" =>
                   /\ trace[t].decision = "COPY"
                   /\ Components(trace[t].dst) \in DOMAIN fs
                   /\ fs[Components(trace[t].dst)] = fs[Components(trace[t].src)]
        /\ CopyPhaseOver =>
               \A i \in 1..Len(device.sources) :
                   LET source == device.sources[i]
                   IN  \A k \in NonIgnoredFiles(source) :
                           LET to == SourceBase(source) \o Below(k, Components(source.path))
                           IN  to \in DOMAIN fs /\ fs[to] = fs[k]

\* a first backup of a tree of several files has finished
FirstBackupCopiesAllWitness ==
    /\ pc = "done"
    /\ PriorGenerations = {}
    /\ Len(trace) >= 2
    /\ \A t \in 1..Len(trace) : trace[t].decision = "COPY"

\* a name made of decimal digits only
AllDigits(g) ==
    /\ g # <<>>
    /\ \A i \in 1..Len(g) : g[i] \in {"0", "1", "2", "3", "4", "5", "6", "7", "8", "9"}

\* C17: the generation list do_copy consults holds exactly the entries of
\* the working folder whose names consist solely of decimal digits (so
\* never 'logs'), each once, and every element is more recent, by the
\* number its name denotes, than every element after it.
GenerationListNewestFirst ==
    pc \in {"source", "copytree"} =>
        /\ {prev_backups[i] : i \in 1..Len(prev_backups)}
               = {g \in listdir(fs0, working_folder) : AllDigits(g)}
        /\ \A i \in 1..Len(prev_backups) : prev_backups[i] # <<"l", "o", "g", "s">>
        /\ \A i, j \in 1..Len(prev_backups) :
               i < j => NumVal(prev_backups[i]) > NumVal(prev_backups[j])

\* the list of a run that found two generations next to the log folder,
\* their stamps differing in the first digit
GenerationListNewestFirstWitness ==
    /\ pc \in {"source", "copytree"}
    /\ Len(prev_backups) >= 2
    /\ prev_backups[1][1] # prev_backups[2][1]
    /\ <<"l", "o", "g", "s">> \in listdir(fs0, working_folder)

\* the working folder of device d
WorkingFolderOf(d) == join(config.devices[d].path, config.devices[d].working_folder)

\* the entries head of the device loop may create: the working folder, its
\* ancestors and its log folder
HeadOfLoopMay(d, k) ==
    \/ IsPrefix(k, Components(WorkingFolderOf(d)))
    \/ k = Components(WorkingFolderOf(d)) \o <<<<"l", "o", "g", "s">>>>

\* C18: every directory and file the copy phase creates or writes lies
\* inside the new generation folder of the run; every generation folder
\* that existed before the run holds at every point of the run, and so at
\* its end, whether completed or aborted, what it held before.
CopyStaysInGeneration ==
    pc # "idle" =>
        LET changed == {k \in DOMAIN fs : k \notin DOMAIN fs0 \/ fs[k] # fs0[k]}
        IN  /\ DOMAIN fs0 \subseteq DOMAIN fs
            /\ \A k \in changed :
                   /\ \A d \in 1..Len(config.devices) :
                          \A g \in Generations(fs0, d) :
                              ~IsPrefix(Components(join(WorkingFolderOf(d), g)), k)
                   /\ \E d \in 1..device_num :
                          \/ HeadOfLoopMay(d, k)
                          \/ IsPrefix(Components(join(WorkingFolderOf(d), strftime(today))), k)

\* a run that found a prior generation copied a file and then aborted in
\* its copy phase
CopyStaysInGenerationWitness ==
    /\ pc = "aborted"
    /\ errlog = <<"copy">>
    /\ PriorGenerations # {}
    /\ \E t \in 1..Len(trace) : trace[t].decision = "COPY"

\* C19: the relative path at which a run writes a file inside its
\* generation (mapped source root, then the entry names copytree joins) is
\* the relative path at which do_copy looks the file up in a generation,
\* for every file name, names holding ':' included.
WrittenPathIsLookupPath ==
    \A t \in 1..Len(trace) :
        RelOfDst(trace[t]) = Components(path_map(trace[t].src))

\* the file a call looks up, as it stands in the generations: present in a
\* generation, and equal in content to the source as the run found it
Reconstructs(e) ==
    LET rel == Components(path_map(e.src))
        G == {g \in listdir(fs, working_folder) :
                 AllDigits(g) /\ (Components(working_folder) \o <<g>> \o rel) \in DOMAIN fs}
    IN  G # {} =>
            ByteIdentical(SourceNode(e), fs[Components(working_folder) \o <<Newest(G)>> \o rel])

\* C20: after runs that all completed without aborting, for every
\* non-ignored source file present at the last run, the newest generation
\* holding the file's mapped path holds the content the source had at that
\* run.
ChainReconstructsSource ==
    (pc = "done" /\ partial = {}) =>
        \A t \in 1..Len(trace) : Reconstructs(trace[t])

====
